---- MODULE Spec2Model ----
\* indexeddb-export-import (src/index.js): exportToJsonString, importFromJsonString
\* and clearDatabase, run against an IndexedDB engine that delivers the
\* notifications of the pending requests of a transaction one at a time, in
\* any order.
\*
\* Strings and byte buffers are sequences of numbers (UTF-16 code units, bytes).
\* A record is [id |-> key, f |-> value]; a value is a string or an ArrayBuffer.
\* A JSON text is modelled by the JSON value it denotes: an object given as the
\* sequence of its entries in key insertion order, every leaf a JSON string.
EXTENDS Integers, Sequences, FiniteSets, TLC

\* ---------------------------------------------------------------- bounds
\* Record keys are 1..MaxKey, so a store (and a document entry) holds at most
\* MaxKey records.
MaxKey == 2

Keys == 1..MaxKey

\* The codec is run on buffers and strings of up to MaxBufLen elements.
MaxBufLen == 2

\* The store names a database may declare, in objectStoreNames (sorted) order.
NameOrder == <<"a", "b">>

Names == {NameOrder[i] : i \in 1..Len(NameOrder)}

\* ---------------------------------------------------------------- values
Str(s) == [t |-> "string", v |-> s]

Buf(b) == [t |-> "ArrayBuffer", v |-> b]

\* '_$AB'
Sentinel == <<95, 36, 65, 66>>

isArrayBuffer(value) == value.t = "ArrayBuffer"

\* String.fromCharCode.apply(null, new Uint8Array(buf)): one code unit per byte.
ab2str(buf) == [i \in 1..Len(buf) |-> buf[i] % 65536]

\* One byte allocated per character.
str2ab_m(str) == [i \in 1..Len(str) |-> str[i] % 256]

\* new ArrayBuffer(str.length*2), zero filled; bufView[i] = str.charCodeAt(i)
\* stores the code unit modulo 256 in the first str.length bytes.
str2ab(str) == [i \in 1..(2 * Len(str)) |-> IF i <= Len(str) THEN str[i] % 256 ELSE 0]

exportReplacer(value) ==
    IF isArrayBuffer(value) THEN Str(Sentinel \o ab2str(value.v)) ELSE value

startsWith(s, p) == Len(s) >= Len(p) /\ SubSeq(s, 1, Len(p)) = p

slice(s, n) == SubSeq(s, n + 1, Len(s))

\* No string taken for an encoded buffer.
importResolver_m(value) == Str(value)

\* value is a JSON string (every leaf of a document is one).
importResolver(value) ==
    IF startsWith(value, Sentinel) THEN Buf(str2ab(slice(value, 4))) ELSE Str(value)

\* ---------------------------------------------------------------- JSON
\* The JSON string a (replaced) value is written as.
JsonLeaf(value) == exportReplacer(value).v

JsonRecord(r) == [id |-> r.id, f |-> JsonLeaf(r.f)]

JsonRecords(recs) == [i \in 1..Len(recs) |-> JsonRecord(recs[i])]

\* JSON.stringify(exportObject, exportReplacer): exportObject is the sequence of
\* its entries [name, recs] in insertion order.
Stringify(eo) ==
    [kind |-> "json",
     doc  |-> [i \in 1..Len(eo) |-> [name |-> eo[i].name, recs |-> JsonRecords(eo[i].recs)]]]

InvalidText == [kind |-> "invalid", doc |-> <<>>]

\* cb(event, null) and cb(err): the second argument when it is no text.
NullDoc == [kind |-> "null", doc |-> <<>>]

Undefined == [kind |-> "undefined", doc |-> <<>>]

ReviveRecords(jrecs) == [i \in 1..Len(jrecs) |-> [id |-> jrecs[i].id, f |-> importResolver(jrecs[i].f)]]

TextKeys(text) == {text.doc[i].name : i \in 1..Len(text.doc)}

TextEntry(text, n) == text.doc[CHOOSE i \in 1..Len(text.doc) : text.doc[i].name = n].recs

\* JSON.parse(jsonString, importResolver) of a valid text: the object as a
\* function from its keys to the revived record sequences.
Parse(text) == [n \in TextKeys(text) |-> ReviveRecords(TextEntry(text, n))]

\* ---------------------------------------------------------------- stores
\* A store's records in key order, which is the order a cursor visits them in.
HasKey(recs, k) == \E i \in 1..Len(recs) : recs[i].id = k

InsertSorted(recs, r) ==
    LET k == Cardinality({i \in 1..Len(recs) : recs[i].id < r.id})
    IN  SubSeq(recs, 1, k) \o <<r>> \o SubSeq(recs, k + 1, Len(recs))

RemoveKey(recs, k) == SelectSeq(recs, LAMBDA x : x.id # k)

\* The records with keys K and values g[k], in key order.
SortedRecs(K, g) ==
    [i \in 1..Cardinality(K) |->
        LET k == CHOOSE x \in K : Cardinality({j \in K : j < x}) = i - 1
        IN  [id |-> k, f |-> g[k]]]

RecSet(recs) == {recs[i] : i \in 1..Len(recs)}

\* ---------------------------------------------------------------- inputs
\* The values a record of the initial database may hold in its field: a plain
\* string, a byte buffer, a plain string that begins with the sentinel.
InitValues == {Str(<<120>>), Buf(<<255>>), Str(Sentinel \o <<7>>)}

\* A store starts with the keys 1..k, every record holding the same value.
StoreContents ==
    {SortedRecs(1..k, [x \in 1..k |-> v]) : k \in 0..MaxKey, v \in InitValues}

\* The JSON strings a record of an import text may hold.
JsonStrings == {<<121>>, Sentinel \o <<7>>}

\* An entry of an import text holds the keys j..MaxKey (none for j = MaxKey + 1),
\* which are taken or free in a store that holds 1..k.
JsonSeqs ==
    {SortedRecs(j..MaxKey, [x \in j..MaxKey |-> v]) : j \in 1..(MaxKey + 1), v \in JsonStrings}

\* The texts handed to importFromJsonString: every object with keys among Names
\* (declared or not) and entries from JsonSeqs, and one text that is not JSON.
TextOf(D, g) ==
    LET ns == SelectSeq(NameOrder, LAMBDA n : n \in D)
    IN  [kind |-> "json", doc |-> [i \in 1..Len(ns) |-> [name |-> ns[i], recs |-> g[ns[i]]]]]

ImportTexts ==
    UNION {{TextOf(D, g) : g \in [D -> JsonSeqs]} : D \in SUBSET Names} \cup {InvalidText}

\* ---------------------------------------------------------------- state
VARIABLES
    codec,         \* the codec run on its own: input, position, results
    stores,        \* idbDatabase.objectStoreNames
    db,            \* the contents of every declared store
    op,            \* the function being run: "none", "export", "import", "clear"
    calls,         \* how many functions the caller has invoked
    tx,            \* the transaction: "none", "active", "complete", "aborted"
    mode,          \* the mode the transaction was opened in, or "none"
    before,        \* db when the function was called (what an abort reverts to)
    pending,       \* the requests placed and not yet notified
    issued,        \* every request the function has placed
    thrown,        \* the exception the call raised to its caller, or "none"
    exportObject,  \* entries [name, recs] in insertion order
    allObjects,    \* per store, the records its cursor has pushed
    jsonString,    \* import: the text the caller passed
    importObject,  \* the parsed document: a function on its remaining keys
    count,         \* import: per store, the successes counted
    clearCount,    \* clear: the successes counted
    cbCalls,       \* the invocations of cb, in order: [err, doc]
    orig,          \* db when exportToJsonString was called
    exported       \* the text the last successful export delivered

vars == <<codec, stores, db, op, calls, tx, mode, before, pending, issued, thrown, exportObject,
          allObjects, jsonString, importObject, count, clearCount, cbCalls, orig, exported>>

NoRec == [id |-> 0, f |-> Str(<<>>)]

Request(kind, s, n, rec) == [kind |-> kind, store |-> s, n |-> n, rec |-> rec]

EmptyObject == [n \in {} |-> <<>>]

Success(doc) == [err |-> "null", doc |-> doc]

Failure(doc) == [err |-> "event", doc |-> doc]

Quiescent == op # "none" /\ tx # "active" /\ pending = {}

Succeeded == Len(cbCalls) = 1 /\ cbCalls[1].err = "null"

\* The codec at rest, as it is while the three functions run.
CodecIdle == [from |-> "none", pc |-> "idle", buf |-> <<>>, str |-> <<>>, ab |-> <<>>]

Init ==
    /\ codec = CodecIdle
    /\ stores \in SUBSET Names
    /\ db \in [stores -> StoreContents]
    /\ op = "none"
    /\ calls = 0
    /\ tx = "none"
    /\ mode = "none"
    /\ before = db
    /\ pending = {}
    /\ issued = {}
    /\ thrown = "none"
    /\ exportObject = <<>>
    /\ allObjects = [s \in stores |-> <<>>]
    /\ jsonString = NullDoc
    /\ importObject = EmptyObject
    /\ count = [s \in stores |-> 0]
    /\ clearCount = 0
    /\ cbCalls = <<>>
    /\ orig = db
    /\ exported = NullDoc

\* What every call starts from: fresh closure variables, no callback yet.
Fresh(name) ==
    /\ op' = name
    /\ calls' = calls + 1
    /\ before' = db
    /\ exportObject' = <<>>
    /\ allObjects' = [s \in stores |-> <<>>]
    /\ count' = [s \in stores |-> 0]
    /\ clearCount' = 0
    /\ UNCHANGED <<codec, stores, db>>

\* idbDatabase.transaction(idbDatabase.objectStoreNames, mode) raises
\* InvalidAccessError when the list of names is empty.
CanOpen == stores # {}

\* ---------------------------------------------------------------- export
\* The zero-store test left out.
NoStores_m == FALSE

\* line 11
NoStores == Cardinality(stores) = 0

\* Completion as soon as one store is filled in.
ExportComplete_m(eo) == Len(eo) >= 1

\* line 27
ExportComplete(eo) == Cardinality(stores) = Len(eo)

\* The export's transaction opened for writing.
ExportMode_m == "readwrite"

\* line 14
ExportMode == "readonly"

exportToJsonString ==
    /\ op = "none"
    /\ Fresh("export")
    /\ orig' = db
    /\ jsonString' = NullDoc
    /\ importObject' = EmptyObject
    /\ UNCHANGED exported
    /\ IF NoStores
       THEN /\ cbCalls' = <<Success(Stringify(<<>>))>>
            /\ UNCHANGED <<tx, mode, pending>>
            /\ issued' = {}
            /\ thrown' = "none"
       ELSE IF ~CanOpen
       THEN /\ thrown' = "InvalidAccessError"
            /\ cbCalls' = <<>>
            /\ issued' = {}
            /\ UNCHANGED <<tx, mode, pending>>
       ELSE /\ tx' = "active"
            /\ mode' = ExportMode
            /\ pending' = {Request("cursor", s, 0, NoRec) : s \in stores}
            /\ issued' = pending'
            /\ cbCalls' = <<>>
            /\ thrown' = "none"

\* openCursor().onsuccess of store r.store (lines 20-31).
CursorSuccess(r) ==
    /\ tx = "active"
    /\ r \in pending
    /\ r.kind = "cursor"
    /\ LET s == r.store
       IN  IF r.n < Len(db[s])
           THEN LET next == Request("cursor", s, r.n + 1, NoRec)
                IN  /\ allObjects' = [allObjects EXCEPT ![s] = Append(@, db[s][r.n + 1])]
                    /\ pending' = (pending \ {r}) \cup {next}
                    /\ issued' = issued \cup {next}
                    /\ UNCHANGED <<exportObject, cbCalls>>
           ELSE LET eo == Append(exportObject, [name |-> s, recs |-> allObjects[s]])
                IN  /\ exportObject' = eo
                    /\ pending' = pending \ {r}
                    /\ cbCalls' = IF ExportComplete(eo)
                                  THEN Append(cbCalls, Success(Stringify(eo)))
                                  ELSE cbCalls
                    /\ UNCHANGED <<allObjects, issued>>
    /\ UNCHANGED <<codec, mode, stores, db, op, calls, tx, before, thrown, jsonString, importObject,
                   count, clearCount, orig, exported>>

\* ---------------------------------------------------------------- engine
\* The error handler reporting success.
onerror_m == Success(Undefined)

\* transaction.onerror (lines 15-17, 103-105, 144-146)
onerror == IF op = "export" THEN Failure(NullDoc) ELSE Failure(Undefined)

\* A pending request fails. Its error event bubbles to transaction.onerror; no
\* handler prevents the default, so the transaction aborts and its changes are
\* reverted.
RequestError(r) ==
    /\ tx = "active"
    /\ r \in pending
    /\ cbCalls' = Append(cbCalls, onerror)
    /\ tx' = "aborted"
    /\ db' = before
    /\ pending' = pending \ {r}
    /\ UNCHANGED <<codec, mode, stores, op, calls, before, issued, thrown, exportObject, allObjects,
                   jsonString, importObject, count, clearCount, orig, exported>>

\* The place of a request in the transaction's request list: the requests are
\* placed store by store, those of one store in the order of their numbers.
StoreIndex(s) == CHOOSE i \in 1..Len(NameOrder) : NameOrder[i] = s

Precedes(q, r) ==
    \/ StoreIndex(q.store) < StoreIndex(r.store)
    \/ q.store = r.store /\ q.n < r.n

\* Every request still pending when the transaction aborts gets an error event
\* (AbortError), in request list order, which bubbles to transaction.onerror as
\* well.
AbortNotify(r) ==
    /\ tx = "aborted"
    /\ r \in pending
    /\ \A q \in pending : ~Precedes(q, r)
    /\ cbCalls' = Append(cbCalls, onerror)
    /\ pending' = pending \ {r}
    /\ UNCHANGED <<codec, mode, stores, db, op, calls, tx, before, issued, thrown, exportObject,
                   allObjects, jsonString, importObject, count, clearCount, orig, exported>>

\* With no request pending the transaction commits.
TxComplete ==
    /\ tx = "active"
    /\ pending = {}
    /\ tx' = "complete"
    /\ UNCHANGED <<codec, mode, stores, db, op, calls, before, pending, issued, thrown, exportObject,
                   allObjects, jsonString, importObject, count, clearCount, cbCalls, orig,
                   exported>>

\* ---------------------------------------------------------------- import
\* What the caller may do next: its first call, or the next step of a backup and
\* restore (export, then clear, then import of the exported text).
FirstCall == op = "none"

AfterExport == op = "export" /\ calls = 1 /\ Quiescent /\ Succeeded

AfterClear == op = "clear" /\ calls = 2 /\ Quiescent /\ Succeeded

\* put in place of add: a record with a taken key replaces the one stored.
put(recs, toAdd) ==
    [ok |-> TRUE, recs |-> InsertSorted(RemoveKey(recs, toAdd.id), toAdd)]

\* transaction.objectStore(storeName).add(toAdd) against the records of the
\* store: a ConstraintError when the key is taken.
add(recs, toAdd) ==
    [ok   |-> ~HasKey(recs, toAdd.id),
     recs |-> IF HasKey(recs, toAdd.id) THEN recs ELSE InsertSorted(recs, toAdd)]

\* Only the keys that are declared stores counted.
keys_m(object) == DOMAIN object \cap stores

\* lodash keys(importObject)
keys(object) == DOMAIN object

\* The requests of the two nested forEach (lines 107-120): importObject[storeName]
\* is undefined, and iterates as empty, for a store the document has no key of.
ImportRequests(object) ==
    UNION {{Request("add", s, i, object[s][i]) : i \in 1..Len(object[s])} :
              s \in stores \cap keys(object)}

\* A text that is not JSON taken for the empty object.
SyntaxError_m(text) == FALSE

\* JSON.parse (line 106) throws a SyntaxError on a text that is not JSON.
SyntaxError(text) == text.kind # "json"

\* Success signalled as soon as one store is done.
ImportComplete_m(object) == TRUE

\* line 115
ImportComplete(object) == Cardinality(keys(object)) = 0

importFromJsonString(text) ==
    /\ \/ FirstCall /\ text \in ImportTexts
       \/ AfterClear /\ text = exported
    /\ Fresh("import")
    /\ jsonString' = text
    /\ UNCHANGED <<orig, exported>>
    /\ cbCalls' = <<>>
    /\ IF ~CanOpen
       THEN /\ thrown' = "InvalidAccessError"
            /\ tx' = "none"
            /\ mode' = "none"
            /\ importObject' = EmptyObject
            /\ pending' = {}
            /\ issued' = {}
       ELSE IF SyntaxError(text)
       THEN /\ thrown' = "SyntaxError"
            /\ tx' = "active"
            /\ mode' = "readwrite"
            /\ importObject' = EmptyObject
            /\ pending' = {}
            /\ issued' = {}
       ELSE /\ thrown' = "none"
            /\ tx' = "active"
            /\ mode' = "readwrite"
            /\ importObject' = Parse(text)
            /\ pending' = ImportRequests(importObject')
            /\ issued' = pending'

\* request.onsuccess of an add (lines 111-118); the engine has stored the record.
AddSuccess(r) ==
    /\ tx = "active"
    /\ r \in pending
    /\ r.kind = "add"
    /\ add(db[r.store], r.rec).ok
    /\ LET s == r.store
           c == count[s] + 1
           storeDone == c = Len(importObject[s])
           object == IF storeDone
                     THEN [n \in keys(importObject) \ {s} |-> importObject[n]]
                     ELSE importObject
       IN  /\ db' = [db EXCEPT ![s] = add(db[s], r.rec).recs]
           /\ count' = [count EXCEPT ![s] = c]
           /\ importObject' = object
           /\ cbCalls' = IF storeDone /\ ImportComplete(object)
                         THEN Append(cbCalls, Success(Undefined))
                         ELSE cbCalls
    /\ pending' = pending \ {r}
    /\ UNCHANGED <<codec, mode, stores, op, calls, tx, before, issued, thrown, exportObject,
                   allObjects, jsonString, clearCount, orig, exported>>

\* ---------------------------------------------------------------- clear
\* Success signalled after the first store is cleared.
ClearComplete_m(c) == c >= 1

\* line 151
ClearComplete(c) == c = Cardinality(stores)

clearDatabase ==
    /\ FirstCall \/ AfterExport
    /\ Fresh("clear")
    /\ jsonString' = NullDoc
    /\ importObject' = EmptyObject
    /\ exported' = IF AfterExport THEN cbCalls[1].doc ELSE exported
    /\ UNCHANGED orig
    /\ cbCalls' = <<>>
    /\ IF ~CanOpen
       THEN /\ thrown' = "InvalidAccessError"
            /\ tx' = "none"
            /\ mode' = "none"
            /\ pending' = {}
            /\ issued' = {}
       ELSE /\ thrown' = "none"
            /\ tx' = "active"
            /\ mode' = "readwrite"
            /\ pending' = {Request("clear", s, 0, NoRec) : s \in stores}
            /\ issued' = pending'

\* clear().onsuccess (lines 149-153); the engine has emptied the store.
ClearSuccess(r) ==
    /\ tx = "active"
    /\ r \in pending
    /\ r.kind = "clear"
    /\ db' = [db EXCEPT ![r.store] = <<>>]
    /\ clearCount' = clearCount + 1
    /\ cbCalls' = IF ClearComplete(clearCount')
                  THEN Append(cbCalls, Success(Undefined))
                  ELSE cbCalls
    /\ pending' = pending \ {r}
    /\ UNCHANGED <<codec, mode, stores, op, calls, tx, before, issued, thrown, exportObject,
                   allObjects, jsonString, importObject, count, orig, exported>>

\* ---------------------------------------------------------------- system
Next ==
    \/ exportToJsonString
    \/ \E text \in ImportTexts \cup {exported} : importFromJsonString(text)
    \/ clearDatabase
    \/ \E r \in pending : CursorSuccess(r)
    \/ \E r \in pending : AddSuccess(r)
    \/ \E r \in pending : ClearSuccess(r)
    \/ \E r \in pending : RequestError(r)
    \/ \E r \in pending : AbortNotify(r)
    \/ TxComplete

Spec == Init /\ [][Next]_vars

\* ---------------------------------------------------------------- codec alone
\* ab2str and str2ab applied to buffers and strings of their own: every buffer
\* of one byte, the buffers of up to MaxBufLen sample bytes, and the strings of
\* up to MaxBufLen sample code units, some above 255.
SeqsUpTo(S, n) == UNION {[1..k -> S] : k \in 0..n}

ByteSamples == {0, 7, 255}

UnitSamples == {0, 65, 255, 256, 321, 65535}

CodecBuffers == SeqsUpTo(ByteSamples, MaxBufLen) \cup {<<b>> : b \in 0..255}

CodecStrings == SeqsUpTo(UnitSamples, MaxBufLen)

InitCodec ==
    /\ codec \in
           {[from |-> "buffer", pc |-> "start", buf |-> b, str |-> <<>>, ab |-> <<>>] :
               b \in CodecBuffers}
           \cup
           {[from |-> "string", pc |-> "encoded", buf |-> <<>>, str |-> s, ab |-> <<>>] :
               s \in CodecStrings}
    /\ stores = {}
    /\ db = [s \in stores |-> <<>>]
    /\ op = "none"
    /\ calls = 0
    /\ tx = "none"
    /\ mode = "none"
    /\ before = db
    /\ pending = {}
    /\ issued = {}
    /\ thrown = "none"
    /\ exportObject = <<>>
    /\ allObjects = [s \in stores |-> <<>>]
    /\ jsonString = NullDoc
    /\ importObject = EmptyObject
    /\ count = [s \in stores |-> 0]
    /\ clearCount = 0
    /\ cbCalls = <<>>
    /\ orig = db
    /\ exported = NullDoc

mainVars == <<stores, db, op, calls, tx, mode, before, pending, issued, thrown, exportObject,
              allObjects, jsonString, importObject, count, clearCount, cbCalls, orig,
              exported>>

\* ab2str(buf)
Encode ==
    /\ codec.pc = "start"
    /\ codec' = [codec EXCEPT !.str = ab2str(codec.buf), !.pc = "encoded"]
    /\ UNCHANGED mainVars

\* str2ab(str)
Decode ==
    /\ codec.pc = "encoded"
    /\ codec' = [codec EXCEPT !.ab = str2ab(codec.str), !.pc = "decoded"]
    /\ UNCHANGED mainVars

NextCodec == Encode \/ Decode

SpecCodec == InitCodec /\ [][NextCodec]_vars

\* ---------------------------------------------------------------- claims
NoErrorReported == \A i \in 1..Len(cbCalls) : cbCalls[i].err = "null"

ErrorReported == \E i \in 1..Len(cbCalls) : cbCalls[i].err = "event"

\* The object a JSON text denotes, whatever the order of its keys.
AsObject(text) == [n \in TextKeys(text) |-> TextEntry(text, n)]

\* What an export of the stores as they were at the call has to hold.
ExpectedExport == [s \in stores |-> JsonRecords(before[s])]

EmptyObjectText == [kind |-> "json", doc |-> <<>>]

ValidImport == op = "import" /\ thrown = "none" /\ jsonString.kind = "json"

\* C1: once an invocation of export, import or clear that returned normally has
\* nothing left to happen (its transaction has finished and no notification is
\* outstanding), the callback has been invoked exactly once.
C1_ExactlyOneCallback == (Quiescent /\ thrown = "none") => Len(cbCalls) = 1

\* C2: after export, then clear, then import of the exported text, with no error
\* reported by the engine, the import callback has been invoked with a null error
\* and every store holds the set of records it held before the export.
C2_RoundTrip ==
    (op = "import" /\ calls = 3 /\ Quiescent /\ NoErrorReported)
        => /\ Succeeded
           /\ \A s \in stores : RecSet(db[s]) = RecSet(orig[s])

\* C3: when the engine reports no error, an invocation that placed requests (an
\* import whose document names declared stores only) ends, for every order of
\* the notifications, with the callback invoked with a null error, and an export
\* delivers the same object whatever the order of its keys.
C3_OrderIndependence ==
    (/\ Quiescent
     /\ thrown = "none"
     /\ issued # {}
     /\ NoErrorReported
     /\ op = "import" => TextKeys(jsonString) \subseteq stores)
        => /\ Succeeded
           /\ op = "export" => AsObject(cbCalls[1].doc) = ExpectedExport

\* C4: when the transaction has reported an error, the callback has been invoked
\* exactly once, with a non-null error and, for export, a null document.
C4_ErrorExactlyOnce ==
    (Quiescent /\ ErrorReported)
        => /\ Len(cbCalls) = 1
           /\ cbCalls[1].err = "event"
           /\ op = "export" => cbCalls[1].doc = NullDoc

\* C5: a document delivered by export has exactly one entry per declared store
\* and no other, each holding the store's records in cursor (key) order, so an
\* empty store maps to the empty sequence.
C5_ExportDocument ==
    \A i \in 1..Len(cbCalls) :
        (op = "export" /\ cbCalls[i].err = "null") =>
            LET d == cbCalls[i].doc
            IN  /\ d.kind = "json"
                /\ Len(d.doc) = Cardinality(stores)
                /\ TextKeys(d) = stores
                /\ \A j \in 1..Len(d.doc) :
                       d.doc[j].recs = JsonRecords(before[d.doc[j].name])

C5_Witness ==
    /\ op = "export"
    /\ Succeeded
    /\ Len(cbCalls[1].doc.doc) = 2
    /\ cbCalls[1].doc.doc[1].name = "b"
    /\ cbCalls[1].doc.doc[1].recs = <<>>
    /\ Len(cbCalls[1].doc.doc[2].recs) = 2

\* C6: export of a database with zero stores invokes the callback once, with a
\* null error and the text of an empty object, and opens no transaction and
\* places no request.
C6_ZeroStoreExport ==
    (op = "export" /\ stores = {})
        => /\ cbCalls = <<Success(EmptyObjectText)>>
           /\ tx = "none"
           /\ issued = {}
           /\ pending = {}
           /\ thrown = "none"

C6_Witness == op = "export" /\ stores = {} /\ Len(cbCalls) = 1

\* C7: an import of the text of an empty object into a database with at least
\* one store places no insert and ends with the callback invoked with a null
\* error.
C7_EmptyObjectImport ==
    (ValidImport /\ stores # {} /\ jsonString = EmptyObjectText /\ Quiescent)
        => issued = {} /\ Succeeded

\* C8: an import whose document names declared stores only and holds an entry
\* with an empty sequence ends, when no insert fails, with the callback invoked
\* with a null error.
C8_EmptySequenceDone ==
    (/\ ValidImport
     /\ Quiescent
     /\ NoErrorReported
     /\ TextKeys(jsonString) \subseteq stores
     /\ \E n \in TextKeys(jsonString) : TextEntry(jsonString, n) = <<>>)
        => Succeeded

\* C9: an import whose document names declared stores only and holds a non-empty
\* entry has invoked the callback with a null error once every insert it placed
\* has succeeded, however many declared stores the document leaves out.
C9_AbsentStoreNoBlock ==
    (/\ ValidImport
     /\ TextKeys(jsonString) \subseteq stores
     /\ \E n \in TextKeys(jsonString) : TextEntry(jsonString, n) # <<>>
     /\ pending = {}
     /\ NoErrorReported)
        => Succeeded

\* C10: during and after an import, successful or failed, every record a store
\* held before the call is still in it, and every request placed is an insert.
C10_ImportAdditive ==
    op = "import" =>
        /\ \A s \in stores : RecSet(before[s]) \subseteq RecSet(db[s])
        /\ \A r \in issued : r.kind = "add"

C10_Witness ==
    /\ op = "import"
    /\ Quiescent
    /\ Succeeded
    /\ \E s \in stores : before[s] # <<>> /\ Len(db[s]) > Len(before[s])

\* Sanity: with every entry non-empty and for a declared store, absent stores do not block.
C9_Nearby ==
    (/\ ValidImport
     /\ TextKeys(jsonString) \subseteq stores
     /\ TextKeys(jsonString) # {}
     /\ \A n \in TextKeys(jsonString) : TextEntry(jsonString, n) # <<>>
     /\ pending = {}
     /\ NoErrorReported)
        => Succeeded

NullCalls == Cardinality({i \in 1..Len(cbCalls) : cbCalls[i].err = "null"})

\* C11: a clear on at least one store places exactly one clear request per
\* declared store, and has invoked the callback with a null error, once, exactly
\* when the count of successes has reached the number of stores; every store is
\* empty then.
C11_ClearCompletion ==
    (op = "clear" /\ stores # {})
        => /\ issued = {Request("clear", s, 0, NoRec) : s \in stores}
           /\ NullCalls <= 1
           /\ NullCalls = 1 <=> clearCount = Cardinality(stores)
           /\ NullCalls = 1 => \A s \in stores : db[s] = <<>>

C11_Witness ==
    /\ op = "clear"
    /\ Cardinality(stores) = 2
    /\ Succeeded
    /\ \A s \in stores : before[s] # <<>>

C14_SentinelCollision ==
    /\ (op = "export" /\ Succeeded) =>
           \A j \in 1..Len(cbCalls[1].doc.doc) :
               LET e == cbCalls[1].doc.doc[j]
               IN  \A i \in 1..Len(e.recs) :
                       before[e.name][i].f.t = "string" => e.recs[i].f = before[e.name][i].f.v
    /\ ValidImport =>
           \A r \in issued :
               LET leaf == TextEntry(jsonString, r.store)[r.n].f
               IN  IF startsWith(leaf, Sentinel)
                   THEN /\ r.rec.f.t = "ArrayBuffer"
                        /\ Len(r.rec.f.v) >= Len(leaf) - 4
                        /\ \A i \in 1..(Len(leaf) - 4) : r.rec.f.v[i] = leaf[i + 4] % 256
                   ELSE r.rec.f = Str(leaf)

C14_Witness ==
    /\ op = "import"
    /\ calls = 3
    /\ Succeeded
    /\ \E s \in stores :
           /\ orig[s] # <<>>
           /\ db[s] # <<>>
           /\ orig[s][1].f = Str(Sentinel \o <<7>>)
           /\ db[s][1].f.t = "ArrayBuffer"

\* C15: an import has invoked the callback with a null error at most once, and
\* only when every entry of the parsed document has been removed and, for every
\* declared store with an entry, the successes counted equal the length of the
\* entry and its records are in the store.
C15_ImportSuccessOnce ==
    op = "import" =>
        /\ NullCalls <= 1
        /\ NullCalls = 1 =>
               /\ keys(importObject) = {}
               /\ \A s \in stores \cap TextKeys(jsonString) :
                      /\ count[s] = Len(TextEntry(jsonString, s))
                      /\ RecSet(ReviveRecords(TextEntry(jsonString, s))) \subseteq RecSet(db[s])

C15_Witness ==
    /\ op = "import"
    /\ calls = 1
    /\ Succeeded
    /\ Cardinality(TextKeys(jsonString)) = 2
    /\ \E s \in stores : count[s] = 2

\* C16: an import in which an insert has failed has invoked the callback with a
\* non-null error and never with a null error, and no record of it is kept.
C16_InsertFailure ==
    (op = "import" /\ tx = "aborted")
        => /\ Len(cbCalls) >= 1
           /\ \A i \in 1..Len(cbCalls) : cbCalls[i].err = "event"
           /\ db = before

C16_Witness ==
    /\ op = "import"
    /\ tx = "aborted"
    /\ pending = {}
    /\ \E s \in stores : count[s] >= 1

\* C18: an import whose document holds a key that is no declared store places no
\* insert for that entry, never removes it, and never invokes the callback with
\* a null error.
C18_UndeclaredKeyBlocks ==
    (ValidImport /\ ~(TextKeys(jsonString) \subseteq stores))
        => /\ NullCalls = 0
           /\ \A n \in TextKeys(jsonString) \ stores :
                  /\ n \in keys(importObject)
                  /\ \A r \in issued : r.store # n

C18_Witness ==
    /\ ValidImport
    /\ stores = {"a"}
    /\ "b" \in TextKeys(jsonString)
    /\ "a" \in TextKeys(jsonString)
    /\ tx = "complete"
    /\ count["a"] = 2
    /\ count["a"] = Len(TextEntry(jsonString, "a"))

\* C19: within one invocation the callback is never invoked both with a null
\* error and with a non-null error.
C19_NeverBoth == ~(NullCalls >= 1 /\ ErrorReported)

C19_Witness ==
    /\ op = "export"
    /\ Quiescent
    /\ ErrorReported
    /\ Len(exportObject) = 1

\* C20: during and after an export, successful or failed, every store holds what
\* it held before the call, every request placed is a cursor request, and the
\* transaction was opened read-only.
C20_ExportReadOnly ==
    op = "export" =>
        /\ db = before
        /\ \A r \in issued : r.kind = "cursor"
        /\ tx # "none" => mode = "readonly"

C20_Witness ==
    /\ op = "export"
    /\ Quiescent
    /\ ErrorReported
    /\ \E s \in stores : Len(allObjects[s]) >= 1

\* C13: for every byte buffer b, str2ab(ab2str(b)) is a buffer equal to b: of
\* the same length and with the same byte at every position.
C13_ByteBufferFidelity ==
    (codec.from = "buffer" /\ codec.pc = "decoded") => codec.ab = codec.buf

\* C17: str2ab(s) is a buffer of exactly 2 * length(s) bytes, byte i the code of
\* s[i] modulo 256 for i within s and 0 from there on; ab2str(b) is a string of
\* exactly length(b) code units, the i-th equal to byte i of b.
C17_CodecShape ==
    /\ codec.pc = "decoded" =>
           /\ Len(codec.ab) = 2 * Len(codec.str)
           /\ \A i \in 1..Len(codec.str) : codec.ab[i] = codec.str[i] % 256
           /\ \A i \in (Len(codec.str) + 1)..Len(codec.ab) : codec.ab[i] = 0
    /\ (codec.from = "buffer" /\ codec.pc \in {"encoded", "decoded"}) =>
           /\ Len(codec.str) = Len(codec.buf)
           /\ \A i \in 1..Len(codec.buf) : codec.str[i] = codec.buf[i]

C17_Witness ==
    /\ codec.from = "string"
    /\ codec.pc = "decoded"
    /\ codec.str = <<321, 65535>>
    /\ codec.ab = <<65, 255, 0, 0>>

====
